---- MODULE Spec2Model ----
(***************************************************************************)
(* The swap service of swap-agents-server.ts: the two tools of             *)
(* runSwapService (createSwapRequest, executeSwap), the price oracle       *)
(* client and the mock DEX, over the process-wide registries pendingSwaps  *)
(* and completedSwaps.  Every tool call is an async function: it runs      *)
(* atomically between two awaits and other calls of the HTTP server may    *)
(* run at each await.  One action models one such atomic segment.          *)
(*                                                                         *)
(* A JavaScript number is modelled as an exact fraction [num, den] in      *)
(* lowest terms with den >= 0; den = 0 stands for Infinity (num = 1),      *)
(* -Infinity (num = -1) and NaN (num = 0).                                 *)
(***************************************************************************)
EXTENDS Integers, FiniteSets, Sequences, TLC

\* ---------------------------------------------------------------- bounds
\* Number of tool calls the server receives in one run.
MaxCalls == 3
\* Number of identifiers crypto.randomUUID() hands out in one run.
MaxIds == 2
\* Number of executePayment tool calls the user agent receives in one run.
MaxPayments == 3

\* ------------------------------------------------------ program constants
FALLBACK_SOL_PRICE == 150

\* ---------------------------------------------------------------- numbers
Abs(x) == IF x < 0 THEN -x ELSE x

Sign(x) == IF x < 0 THEN -1 ELSE IF x > 0 THEN 1 ELSE 0

RECURSIVE GCD(_, _)
GCD(a, b) == IF b = 0 THEN a ELSE GCD(b, a % b)

\* The number n / d, in lowest terms.
Quot(n, d) ==
    IF d = 0
    THEN [num |-> Sign(n), den |-> 0]
    ELSE LET g == GCD(Abs(n), Abs(d))
             s == Sign(d)
         IN  [num |-> (s * n) \div g, den |-> (s * d) \div g]

Num(i) == [num |-> i, den |-> 1]

IsFinite(x) == x.den # 0

\* x / y of two finite numbers (JavaScript division: x / 0 is +-Infinity or NaN).
NumDiv(x, y) == Quot(x.num * y.den, x.den * y.num)

\* x * y of two finite numbers.
NumMul(x, y) == Quot(x.num * y.num, x.den * y.den)

NumLess(x, y) == x.num * y.den < y.num * x.den

\* Math.round: the integer nearest to x, ties towards +Infinity.
MathRound(x) == (2 * x.num + x.den) \div (2 * x.den)

\* Math.pow(10, e) for a natural e.
RECURSIVE Pow10(_)
Pow10(e) == IF e = 0 THEN 1 ELSE 10 * Pow10(e - 1)

\* The first k decimal digits of r / d (0 <= r < d) as an integer, and the
\* remainder left after them.
RECURSIVE Digits(_, _, _)
Digits(r, d, k) ==
    IF k = 0
    THEN [value |-> 0, rest |-> r]
    ELSE LET q == (10 * r) \div d
             t == Digits((10 * r) % d, d, k - 1)
         IN  [value |-> q * Pow10(k - 1) + t.value, rest |-> t.rest]

\* The number that x.toFixed(6) writes: x rounded to 6 decimals, ties away
\* from zero; Infinity and NaN are written as themselves.
ToFixed6(x) ==
    IF ~IsFinite(x)
    THEN x
    ELSE LET a  == Abs(x.num)
             t  == Digits(a % x.den, x.den, 6)
             up == IF 2 * t.rest >= x.den THEN 1 ELSE 0
             m  == (a \div x.den) * Pow10(6) + t.value + up
         IN  Quot(Sign(x.num) * m, Pow10(6))

\* ------------------------------------------------------------------- text
\* A JavaScript string is a sequence of one-character strings.
UpperCase == <<"A", "B", "C", "D", "E", "F", "G", "H", "I", "J", "K", "L", "M">> \o
             <<"N", "O", "P", "Q", "R", "S", "T", "U", "V", "W", "X", "Y", "Z">>
LowerCase == <<"a", "b", "c", "d", "e", "f", "g", "h", "i", "j", "k", "l", "m">> \o
             <<"n", "o", "p", "q", "r", "s", "t", "u", "v", "w", "x", "y", "z">>

\* String.prototype.toLowerCase
toLowerCase(text) ==
    [i \in DOMAIN text |->
        IF \E k \in DOMAIN UpperCase : UpperCase[k] = text[i]
        THEN LowerCase[CHOOSE k \in DOMAIN UpperCase : UpperCase[k] = text[i]]
        ELSE text[i]]

\* String.prototype.trim: white space removed at both ends.
RECURSIVE trim(_)
trim(text) ==
    IF text = << >> THEN text
    ELSE IF Head(text) = " " THEN trim(Tail(text))
    ELSE IF text[Len(text)] = " " THEN trim(SubSeq(text, 1, Len(text) - 1))
    ELSE text

\* text starts with phrase.
startsWith(text, phrase) ==
    Len(phrase) <= Len(text) /\ SubSeq(text, 1, Len(phrase)) = phrase

\* String.prototype.includes: the search from the left for phrase.
RECURSIVE includes(_, _)
includes(text, phrase) ==
    IF Len(text) < Len(phrase) THEN FALSE
    ELSE IF startsWith(text, phrase) THEN TRUE
    ELSE includes(Tail(text), phrase)

\* ------------------------------------------------------------ price oracle
\* What pythClient.getLatestPriceUpdates can do: throw, answer without
\* parsed data, or answer with a price mantissa and an exponent.
FeedThrow == [kind |-> "throw", price |-> 0, expo |-> 0]
FeedNoData == [kind |-> "nodata", price |-> 0, expo |-> 0]
FeedPrice(p, e) == [kind |-> "parsed", price |-> p, expo |-> e]

FeedResponses == {FeedThrow, FeedNoData, FeedPrice(200004, -3)}

\* Number(price) * Math.pow(10, expo)
PublishedPrice(resp) ==
    IF resp.expo >= 0
    THEN Num(resp.price * Pow10(resp.expo))
    ELSE Quot(resp.price, Pow10(-resp.expo))

\* The oracle client with the fallback of the ETH/USD price route.
getCurrentExchangeRateEthFallback(resp) ==
    IF resp.kind # "parsed"
    THEN Num(3500)
    ELSE Quot(MathRound(NumMul(PublishedPrice(resp), Num(100))), 100)

getCurrentExchangeRate(resp) ==
    IF resp.kind = "throw"
    THEN Num(FALLBACK_SOL_PRICE)
    ELSE IF resp.kind = "nodata"
    THEN Num(FALLBACK_SOL_PRICE)
    ELSE Quot(MathRound(NumMul(PublishedPrice(resp), Num(100))), 100)

\* ---------------------------------------------------------------- mock DEX
\* The exchange priced again at execution, with the fallback rate.
executeSwapOnDexRepriced(usdcAmount, exchangeRate) ==
    [success |-> TRUE, solReceived |-> NumDiv(usdcAmount, Num(FALLBACK_SOL_PRICE))]

executeSwapOnDex(usdcAmount, exchangeRate) ==
    [success |-> TRUE, solReceived |-> NumDiv(usdcAmount, exchangeRate)]

sendSolToAgent(solAmount) == [success |-> TRUE]

\* ------------------------------------------------------------------ state
VARIABLES
    pendingSwaps,     \* Map<string, PendingSwap>: request id -> swap terms
    completedSwaps,   \* Set<string>: request ids marked completed
    calls,            \* the tool calls received so far, in order of arrival
    uuids,            \* how many identifiers crypto.randomUUID() has handed out
    paymentRequests,  \* ids for which createPaymentRequest has been called
    dexRuns,          \* id -> how often executeSwapOnDex ran for that request
    sendRuns,         \* id -> how often sendSolToAgent ran for that request
    agent,            \* the generateText loops of runSwapUser and runSwapService
    cli,              \* the process of swap-demo.ts
    setup,            \* the run of setup-and-run.sh
    payments          \* the executePayment tool calls of the user agent

vars == <<pendingSwaps, completedSwaps, calls, uuids, paymentRequests, dexRuns, sendRuns,
          agent, cli, setup, payments>>

Ids == 1..MaxIds

\* An id no createSwapRequest of this process ever generated.
UnknownId == MaxIds + 1

NoId == MaxIds + 2

\* The whole-USDC amounts a createSwapRequest call may carry (z.number()).
UsdcAmounts == {Num(0), Num(25)}

NoSwap == [usdcAmount |-> Num(0), solAmount |-> Num(0), exchangeRate |-> Num(0)]

PendingSwap(usdcAmount, solAmount, exchangeRate) ==
    [usdcAmount |-> usdcAmount, solAmount |-> solAmount, exchangeRate |-> exchangeRate]

NoProof == [valid |-> FALSE, id |-> NoId]

\* What a tool call gave back: nothing yet, a returned {error}, a rejected
\* promise, the createSwapRequest payload, or the executeSwap receipt.
NoResult ==
    [kind |-> "none", error |-> "", usdcAmount |-> Num(0), solAmount |-> Num(0),
     exchangeRate |-> Num(0), paymentRequired |-> Num(0)]

ErrorResult(msg) == [NoResult EXCEPT !.kind = "error", !.error = msg]

Thrown(msg) == [NoResult EXCEPT !.kind = "throw", !.error = msg]

NoUrlError == "Failed to create payment request, no URL returned"
InvalidTokenError == "Invalid or expired payment request token"
AlreadyExecutedError == "This swap has already been executed"

NewCall(op) ==
    [op |-> op, pc |-> "done", usdcAmount |-> Num(0), exchangeRate |-> Num(0),
     solAmount |-> Num(0), paymentRequestId |-> NoId, proof |-> NoProof,
     replay |-> FALSE, verified |-> FALSE, feedFailed |-> FALSE, pendingSwap |-> NoSwap,
     solReceived |-> Num(0), swapSuccess |-> "none", sendSuccess |-> "none",
     result |-> NoResult]

Running(c) == c \in DOMAIN calls /\ calls[c].pc # "done"

\* The ids some executeSwap call has returned a success receipt for.
Settled == {calls[c].paymentRequestId : c \in {d \in DOMAIN calls : calls[d].result.kind = "success"}}

\* The payment proofs a caller can present: a receipt the payment system
\* issued for a payment request of this service, or for one this process
\* never stored; and receipts that do not verify.
Proofs ==
    {[valid |-> v, id |-> i] :
        v \in BOOLEAN, i \in (DOMAIN pendingSwaps \cup completedSwaps \cup {UnknownId})}

\* No answer of POST /chat yet.
NoHttp == [kind |-> "none", text |-> << >>]

\* The { success, message } of the CLI helper executeSwap; none yet.
NoOutcome == [success |-> FALSE, message |-> << >>]

\* swap-demo.ts not launched.
NoCli ==
    [pc |-> "idle", mode |-> "", userInput |-> << >>, command |-> << >>, sent |-> {},
     http |-> NoHttp, result |-> NoOutcome, exitCode |-> -1, step |-> 0, started |-> {},
     passed |-> {}, skipped |-> {}, returned |-> {}, completed |-> FALSE, probe |-> "none"]

\* REQUIRED_VARS of setup-and-run.sh.
REQUIRED_VARS ==
    <<"ANTHROPIC_API_KEY", "CLIENT_ID_AGENT_A", "CLIENT_SECRET_AGENT_A",
      "CLIENT_ID_AGENT_B", "CLIENT_SECRET_AGENT_B">>

RequiredVars == {REQUIRED_VARS[i] : i \in DOMAIN REQUIRED_VARS}

\* A variable as the script finds it: its line in .env ("none" when there is
\* no line, "" for a line without a value) and its value in the environment
\* the script was started in.
NoVar == [line |-> "none", env |-> ""]

\* setup-and-run.sh not launched.
NoSetup ==
    [pc |-> "idle", vars |-> [v \in RequiredVars |-> NoVar], MISSING_VARS |-> << >>,
     prompted |-> 0, started |-> FALSE, exitCode |-> -1, exitedAt |-> "", choice |-> 0]

\* A generateText loop: where it stands, the steps it has completed and the
\* tool its current step is executing.
IdleRun == [pc |-> "idle", steps |-> 0, tool |-> ""]

Init ==
    /\ pendingSwaps = << >>
    /\ completedSwaps = {}
    /\ calls = << >>
    /\ uuids = 0
    /\ paymentRequests = {}
    /\ dexRuns = [i \in Ids \cup {UnknownId} |-> 0]
    /\ sendRuns = [i \in Ids \cup {UnknownId} |-> 0]
    /\ agent = [user |-> IdleRun, service |-> IdleRun]
    /\ cli = NoCli
    /\ setup = NoSetup
    /\ payments = << >>

\* ------------------------------------------------------ createSwapRequest
\* execute: async ({ usdcAmount }) => ... await getCurrentExchangeRate()
InvokeCreateSwapRequest(usdcAmount) ==
    /\ Len(calls) < MaxCalls
    /\ Cardinality({c \in DOMAIN calls : calls[c].op = "create"}) < MaxIds
    /\ calls' = Append(calls, [NewCall("create") EXCEPT !.pc = "oracle", !.usdcAmount = usdcAmount])
    /\ UNCHANGED <<pendingSwaps, completedSwaps, uuids, paymentRequests, dexRuns, sendRuns, agent, cli, setup, payments>>

\* A generator that hands out the same identifier every time.
firstUUID == CHOOSE i \in Ids : \A j \in Ids : i <= j

\* crypto.randomUUID(): an identifier never handed out before.
randomUUID == uuids + 1

\* The quote with the operands of the division swapped.
QuoteSolAmountSwapped(usdcAmount, exchangeRate) == NumDiv(exchangeRate, usdcAmount)

\* const solAmount = usdcAmount / exchangeRate
QuoteSolAmount(usdcAmount, exchangeRate) == NumDiv(usdcAmount, exchangeRate)

\* The oracle answers; the rate, the target amount and the id are computed
\* and createPaymentRequest is called.
CreateRateFetched(c, resp) ==
    /\ Running(c)
    /\ calls[c].pc = "oracle"
    /\ LET exchangeRate == getCurrentExchangeRate(resp)
           solAmount == QuoteSolAmount(calls[c].usdcAmount, exchangeRate)
           paymentRequestId == randomUUID
       IN  /\ calls' = [calls EXCEPT ![c].pc = "payreq",
                                      ![c].exchangeRate = exchangeRate,
                                      ![c].feedFailed = (resp.kind # "parsed"),
                                      ![c].solAmount = solAmount,
                                      ![c].paymentRequestId = paymentRequestId]
           /\ uuids' = uuids + 1
           /\ paymentRequests' = paymentRequests \cup {paymentRequestId}
    /\ UNCHANGED <<pendingSwaps, completedSwaps, dexRuns, sendRuns, agent, cli, setup, payments>>

CreatedResult(call) ==
    [NoResult EXCEPT !.kind = "created",
                     !.usdcAmount = call.usdcAmount,
                     !.exchangeRate = call.exchangeRate,
                     !.solAmount = ToFixed6(call.solAmount),
                     !.paymentRequired = NumMul(call.usdcAmount, Num(100))]

\* The entry stored before the answer of createPaymentRequest is looked at.
CreatePaymentRequestDoneStoredFirst(c, outcome) ==
    /\ Running(c)
    /\ calls[c].pc = "payreq"
    /\ pendingSwaps' =
           [i \in DOMAIN pendingSwaps \cup {calls[c].paymentRequestId} |->
               IF i = calls[c].paymentRequestId
               THEN PendingSwap(calls[c].usdcAmount, calls[c].solAmount, calls[c].exchangeRate)
               ELSE pendingSwaps[i]]
    /\ calls' = [calls EXCEPT ![c].pc = "done",
                              ![c].result = IF outcome = "throw" THEN Thrown("createPaymentRequest")
                                            ELSE IF outcome = "nourl" THEN ErrorResult(NoUrlError)
                                            ELSE CreatedResult(calls[c])]
    /\ UNCHANGED <<completedSwaps, uuids, paymentRequests, dexRuns, sendRuns, agent, cli, setup, payments>>

\* swapServiceAgent.createPaymentRequest answers with a URL, answers without
\* one, or throws.
CreatePaymentRequestDone(c, outcome) ==
    /\ Running(c)
    /\ calls[c].pc = "payreq"
    /\ \/ /\ outcome = "throw"
          /\ calls' = [calls EXCEPT ![c].pc = "done", ![c].result = Thrown("createPaymentRequest")]
          /\ UNCHANGED pendingSwaps
       \/ /\ outcome = "nourl"
          /\ calls' = [calls EXCEPT ![c].pc = "done", ![c].result = ErrorResult(NoUrlError)]
          /\ UNCHANGED pendingSwaps
       \/ /\ outcome = "url"
          /\ pendingSwaps' =
                 [i \in DOMAIN pendingSwaps \cup {calls[c].paymentRequestId} |->
                     IF i = calls[c].paymentRequestId
                     THEN PendingSwap(calls[c].usdcAmount, calls[c].solAmount, calls[c].exchangeRate)
                     ELSE pendingSwaps[i]]
          /\ calls' = [calls EXCEPT ![c].pc = "done", ![c].result = CreatedResult(calls[c])]
    /\ UNCHANGED <<completedSwaps, uuids, paymentRequests, dexRuns, sendRuns, agent, cli, setup, payments>>

\* ------------------------------------------------------------ executeSwap
\* execute: async ({ receiptUrl, recipientAddress }) => ... await fetch(receiptUrl)
InvokeExecuteSwap(proof) ==
    /\ Len(calls) < MaxCalls
    /\ calls' = Append(calls, [NewCall("execute") EXCEPT !.pc = "fetch", !.proof = proof,
                                                        !.replay = (proof.id \in Settled)])
    /\ UNCHANGED <<pendingSwaps, completedSwaps, uuids, paymentRequests, dexRuns, sendRuns, agent, cli, setup, payments>>

\* fetch(receiptUrl).then(res => res.text()) resolves or rejects; on success
\* verifyPaymentReceipt is called.
ExecReceiptFetched(c, fetched) ==
    /\ Running(c)
    /\ calls[c].pc = "fetch"
    /\ calls' = IF fetched
                THEN [calls EXCEPT ![c].pc = "verify"]
                ELSE [calls EXCEPT ![c].pc = "done", ![c].result = Thrown("fetch")]
    /\ UNCHANGED <<pendingSwaps, completedSwaps, uuids, paymentRequests, dexRuns, sendRuns, agent, cli, setup, payments>>

\* Reading the request id out of the receipt without verifying it.
decodeReceiptUnverified(proof) == [ok |-> TRUE, paymentRequestId |-> proof.id]

\* swapServiceAgent.verifyPaymentReceipt: rejects a receipt that does not
\* verify, and otherwise yields the request id the receipt is bound to.
verifyPaymentReceipt(proof) == [ok |-> proof.valid, paymentRequestId |-> proof.id]

\* The validation without its first check (the lookup result is not tested).
ValidateCompletedOnly(paymentRequestId) ==
    IF paymentRequestId \in completedSwaps THEN AlreadyExecutedError ELSE ""

\* "Validate pending swap": the error the two checks return, "" when both pass.
ValidatePendingSwap(paymentRequestId) ==
    IF paymentRequestId \notin DOMAIN pendingSwaps
    THEN InvalidTokenError
    ELSE IF paymentRequestId \in completedSwaps
    THEN AlreadyExecutedError
    ELSE ""

\* pendingSwaps.get(paymentRequestId): the entry, or undefined (NoSwap).
get(paymentRequestId) ==
    IF paymentRequestId \in DOMAIN pendingSwaps
    THEN pendingSwaps[paymentRequestId]
    ELSE NoSwap

\* The verifier answers; the request is looked up and checked, and
\* executeSwapOnDex is called with the stored amount and rate.
ExecReceiptVerified(c) ==
    /\ Running(c)
    /\ calls[c].pc = "verify"
    /\ LET v == verifyPaymentReceipt(calls[c].proof)
           paymentRequestId == v.paymentRequestId
           error == ValidatePendingSwap(paymentRequestId)
       IN  IF ~v.ok
           THEN /\ calls' = [calls EXCEPT ![c].pc = "done",
                                          ![c].result = Thrown("verifyPaymentReceipt")]
                /\ UNCHANGED dexRuns
           ELSE IF error # ""
           THEN /\ calls' = [calls EXCEPT ![c].pc = "done",
                                          ![c].verified = TRUE,
                                          ![c].paymentRequestId = paymentRequestId,
                                          ![c].result = ErrorResult(error)]
                /\ UNCHANGED dexRuns
           ELSE LET pendingSwap == get(paymentRequestId)
                    swapResult == executeSwapOnDex(pendingSwap.usdcAmount, pendingSwap.exchangeRate)
                IN  /\ calls' = [calls EXCEPT ![c].pc = "dex",
                                              ![c].verified = TRUE,
                                              ![c].paymentRequestId = paymentRequestId,
                                              ![c].pendingSwap = pendingSwap,
                                              ![c].solReceived = swapResult.solReceived]
                    /\ dexRuns' = [dexRuns EXCEPT ![paymentRequestId] = @ + 1]
    /\ UNCHANGED <<pendingSwaps, completedSwaps, uuids, paymentRequests, sendRuns, agent, cli, setup, payments>>

\* The success flag a downstream step has answered with.
Answered(success) == IF success THEN "yes" ELSE "no"

SwapFailedError == "Swap execution failed"
SendFailedError == "Failed to send SOL"

\* The exchange's answer not looked at: the transfer is started in any case.
DexReturnedUnchecked(c, success) ==
    /\ Running(c)
    /\ calls[c].pc = "dex"
    /\ calls' = [calls EXCEPT ![c].pc = "send", ![c].swapSuccess = Answered(success)]
    /\ sendRuns' = [sendRuns EXCEPT ![calls[c].paymentRequestId] = @ + 1]
    /\ UNCHANGED <<pendingSwaps, completedSwaps, uuids, paymentRequests, dexRuns, agent, cli, setup, payments>>

\* What executeSwap does with the exchange's answer: if (!swapResult.success)
\* it returns the error, otherwise sendSolToAgent is called with the amount
\* received.
DexReturned(c, success) ==
    /\ Running(c)
    /\ calls[c].pc = "dex"
    /\ IF ~success
       THEN /\ calls' = [calls EXCEPT ![c].pc = "done",
                                      ![c].swapSuccess = Answered(success),
                                      ![c].result = ErrorResult(SwapFailedError)]
            /\ UNCHANGED sendRuns
       ELSE /\ calls' = [calls EXCEPT ![c].pc = "send", ![c].swapSuccess = Answered(success)]
            /\ sendRuns' = [sendRuns EXCEPT ![calls[c].paymentRequestId] = @ + 1]
    /\ UNCHANGED <<pendingSwaps, completedSwaps, uuids, paymentRequests, dexRuns, agent, cli, setup, payments>>

\* The exchange has returned (always with success: true).
ExecSwappedOnDex(c) ==
    DexReturned(c, executeSwapOnDex(calls[c].pendingSwap.usdcAmount,
                                    calls[c].pendingSwap.exchangeRate).success)

\* The receipt returned without recording the completion.
MarkNothing(paymentRequestId) == UNCHANGED <<pendingSwaps, completedSwaps>>

\* pendingSwaps.clear() in place of pendingSwaps.delete(id).
MarkCompletedClearPending(paymentRequestId) ==
    /\ completedSwaps' = completedSwaps \cup {paymentRequestId}
    /\ pendingSwaps' = << >>

\* The completion recorded without pendingSwaps.delete(id).
MarkCompletedKeepPending(paymentRequestId) ==
    /\ completedSwaps' = completedSwaps \cup {paymentRequestId}
    /\ UNCHANGED pendingSwaps

\* "Mark as completed": completedSwaps.add(id); pendingSwaps.delete(id).
MarkCompleted(paymentRequestId) ==
    /\ completedSwaps' = completedSwaps \cup {paymentRequestId}
    /\ pendingSwaps' = [i \in DOMAIN pendingSwaps \ {paymentRequestId} |-> pendingSwaps[i]]

Receipt(call) ==
    [NoResult EXCEPT !.kind = "success",
                     !.usdcAmount = call.pendingSwap.usdcAmount,
                     !.solAmount = ToFixed6(call.solReceived),
                     !.exchangeRate = call.pendingSwap.exchangeRate]

\* The request marked completed before the transfer's answer is looked at.
SendReturnedMarkedFirst(c, success) ==
    /\ Running(c)
    /\ calls[c].pc = "send"
    /\ MarkCompleted(calls[c].paymentRequestId)
    /\ calls' = [calls EXCEPT ![c].pc = "done",
                              ![c].sendSuccess = Answered(success),
                              ![c].result = IF success THEN Receipt(calls[c])
                                                       ELSE ErrorResult(SendFailedError)]
    /\ UNCHANGED <<uuids, paymentRequests, dexRuns, sendRuns, agent, cli, setup, payments>>

\* What executeSwap does with the transfer's answer: if (!sendResult.success)
\* it returns the error, otherwise the request is marked completed and the
\* receipt returned.
SendReturned(c, success) ==
    /\ Running(c)
    /\ calls[c].pc = "send"
    /\ IF ~success
       THEN /\ calls' = [calls EXCEPT ![c].pc = "done",
                                      ![c].sendSuccess = Answered(success),
                                      ![c].result = ErrorResult(SendFailedError)]
            /\ UNCHANGED <<pendingSwaps, completedSwaps>>
       ELSE /\ MarkCompleted(calls[c].paymentRequestId)
            /\ calls' = [calls EXCEPT ![c].pc = "done", ![c].sendSuccess = Answered(success),
                                      ![c].result = Receipt(calls[c])]
    /\ UNCHANGED <<uuids, paymentRequests, dexRuns, sendRuns, agent, cli, setup, payments>>

\* The transfer has returned (always with success: true).
ExecSolSent(c) == SendReturned(c, sendSolToAgent(calls[c].solReceived).success)

\* ---------------------------------------------------------- specification
Next ==
    \/ \E usdcAmount \in UsdcAmounts : InvokeCreateSwapRequest(usdcAmount)
    \/ \E c \in DOMAIN calls, resp \in FeedResponses : CreateRateFetched(c, resp)
    \/ \E c \in DOMAIN calls, outcome \in {"url", "nourl", "throw"} : CreatePaymentRequestDone(c, outcome)
    \/ \E proof \in Proofs : InvokeExecuteSwap(proof)
    \/ \E c \in DOMAIN calls, fetched \in BOOLEAN : ExecReceiptFetched(c, fetched)
    \/ \E c \in DOMAIN calls : ExecReceiptVerified(c)
    \/ \E c \in DOMAIN calls : ExecSwappedOnDex(c)
    \/ \E c \in DOMAIN calls : ExecSolSent(c)

Spec == Init /\ [][Next]_vars

\* ----------------------------------------------------------------- claims
AllIds == Ids \cup {UnknownId}

Stored == DOMAIN pendingSwaps \cup completedSwaps

Executes == {c \in DOMAIN calls : calls[c].op = "execute"}

Creates == {c \in DOMAIN calls : calls[c].op = "create"}

\* The step is one of call c.
Acts(c) == c \in DOMAIN calls /\ calls'[c] # calls[c]

LedgerUnchanged == pendingSwaps' = pendingSwaps /\ completedSwaps' = completedSwaps

NoSettlementStep == dexRuns' = dexRuns /\ sendRuns' = sendRuns

\* The executeSwap calls with a valid proof bound to id whose receipt was
\* fetched and that have returned.
ReturnedFor(id) ==
    {c \in Executes : /\ calls[c].proof.valid
                      /\ calls[c].proof.id = id
                      /\ calls[c].pc = "done"
                      /\ calls[c].result.kind # "throw"}

\* C1: for every request id, of the executeSwap calls that carry a valid proof
\* bound to it, exactly one returns a success receipt and every other one
\* returns an error.
C1_ExactlyOneSuccess ==
    \A id \in Stored :
        LET wins == {c \in ReturnedFor(id) : calls[c].result.kind = "success"}
        IN  /\ Cardinality(wins) <= 1
            /\ ReturnedFor(id) # {} => Cardinality(wins) = 1
            /\ \A c \in ReturnedFor(id) \ wins : calls[c].result.kind = "error"

\* C2: the exchange and the transfer each run at most once per request id.
C2_SettlementAtMostOnce ==
    \A id \in AllIds : dexRuns[id] <= 1 /\ sendRuns[id] <= 1

\* C3: an executeSwap call that arrives after a success receipt was returned
\* for the id its proof is bound to is rejected with an error, runs neither
\* the exchange nor the transfer, and leaves both registries unchanged.
C3_LaterExecuteRejected ==
    [][\A c \in Executes :
          (calls[c].replay /\ Acts(c)) =>
              /\ LedgerUnchanged
              /\ NoSettlementStep
              /\ calls'[c].pc \in {"verify", "done"}
              /\ calls'[c].pc = "done" => calls'[c].result.kind \in {"error", "throw"}]_vars

C3_Witness ==
    \E c \in Executes :
        /\ calls[c].replay
        /\ calls[c].proof.valid
        /\ calls[c].pc = "done"
        /\ calls[c].result.kind = "error"

\* C4: a replayed executeSwap for a settled request returns the
\* already-executed error, and never the result returned for an id the
\* registries never held.
C4_ReplayDistinguishable ==
    \A c \in Executes :
        (calls[c].replay /\ calls[c].verified /\ calls[c].pc = "done") =>
            /\ calls[c].result = ErrorResult(AlreadyExecutedError)
            /\ \A d \in Executes :
                   (calls[d].verified /\ calls[d].pc = "done" /\ calls[d].proof.id = UnknownId)
                       => calls[d].result # calls[c].result

\* C5: a step of an executeSwap call whose proof is bound to X changes the
\* membership of no other id Y in completedSwaps or pendingSwaps, runs no
\* exchange or transfer for Y, and exchanges only with the amounts stored
\* under X.
C5_BindingEnforced ==
    [][\A c \in Executes :
          Acts(c) =>
              /\ \A y \in AllIds \ {calls[c].proof.id} :
                     /\ (y \in completedSwaps') = (y \in completedSwaps)
                     /\ (y \in DOMAIN pendingSwaps') = (y \in DOMAIN pendingSwaps)
                     /\ dexRuns'[y] = dexRuns[y]
                     /\ sendRuns'[y] = sendRuns[y]
              /\ calls'[c].pc = "dex" =>
                     /\ calls[c].proof.id \in DOMAIN pendingSwaps
                     /\ calls'[c].pendingSwap = pendingSwaps[calls[c].proof.id]]_vars

C5_Witness ==
    \E c \in Executes :
        /\ calls[c].result.kind = "success"
        /\ \E y \in DOMAIN pendingSwaps :
               /\ y # calls[c].proof.id
               /\ pendingSwaps[y] # calls[c].pendingSwap

\* C6: an executeSwap call whose verified proof names an id that is in neither
\* registry returns the unknown-request error, runs neither the exchange nor
\* the transfer, and leaves both registries unchanged.
C6_UnknownRequestRejected ==
    [][\A c \in Executes :
          (calls[c].proof.valid /\ calls[c].proof.id \notin Stored /\ Acts(c)) =>
              /\ LedgerUnchanged
              /\ NoSettlementStep
              /\ calls[c].pc = "verify" =>
                     /\ calls'[c].pc = "done"
                     /\ calls'[c].result = ErrorResult(InvalidTokenError)]_vars

C6_Witness ==
    \E c \in Executes :
        /\ calls[c].proof.valid
        /\ calls[c].proof.id \notin Stored
        /\ calls[c].pc = "done"
        /\ calls[c].result = ErrorResult(InvalidTokenError)

\* C7: an executeSwap call reaches the exchange, the transfer or the
\* completion mark only after verifyPaymentReceipt succeeded in that call;
\* when verification fails the call ends at once with the verifier's
\* rejection and both registries are unchanged.
C7_NoSettlementWithoutVerification ==
    [][\A c \in Executes :
          Acts(c) =>
              /\ (calls'[c].pc \in {"dex", "send"} \/ ~LedgerUnchanged \/ ~NoSettlementStep
                    \/ calls'[c].result.kind = "success")
                     => (calls'[c].verified /\ calls[c].proof.valid)
              /\ (calls[c].pc = "verify" /\ ~calls[c].proof.valid) =>
                     /\ calls'[c].pc = "done"
                     /\ calls'[c].result = Thrown("verifyPaymentReceipt")
                     /\ LedgerUnchanged
                     /\ NoSettlementStep]_vars

C7_Witness ==
    \E c \in Executes :
        /\ ~calls[c].proof.valid
        /\ calls[c].proof.id \in DOMAIN pendingSwaps
        /\ calls[c].result = Thrown("verifyPaymentReceipt")

\* C8: a createSwapRequest call whose amount is not positive fails with
\* InvalidAmount before any state change: no payment request is issued for it
\* and nothing is stored in pendingSwaps.
C8_InvalidAmountRejected ==
    \A c \in Creates :
        ~NumLess(Num(0), calls[c].usdcAmount) =>
            /\ calls[c].pc \in {"oracle", "done"}
            /\ calls[c].paymentRequestId \notin paymentRequests
            /\ calls[c].paymentRequestId \notin DOMAIN pendingSwaps
            /\ calls[c].pc = "done" => calls[c].result = ErrorResult("InvalidAmount")

\* The createSwapRequest calls with a positive amount that returned a request.
Created ==
    {c \in Creates : calls[c].result.kind = "created" /\ NumLess(Num(0), calls[c].usdcAmount)}

\* C9 as stated: the request that a successful createSwapRequest stores and
\* the one it returns both carry the target amount sourceAmount / rate.
C9_ReturnedTargetIsQuotient ==
    \A c \in Created :
        /\ calls[c].paymentRequestId \in DOMAIN pendingSwaps =>
               pendingSwaps[calls[c].paymentRequestId].solAmount
                   = NumDiv(calls[c].usdcAmount, calls[c].exchangeRate)
        /\ calls[c].result.solAmount = NumDiv(calls[c].usdcAmount, calls[c].exchangeRate)

\* C9: a successful createSwapRequest with a positive amount stores the target
\* amount sourceAmount / rate with the rate the oracle client returned in that
\* call, and returns that rate and the target amount rounded to 6 decimals.
C9_StoredTargetIsQuotient ==
    \A c \in Created :
        /\ calls[c].paymentRequestId \in DOMAIN pendingSwaps =>
               /\ pendingSwaps[calls[c].paymentRequestId].solAmount
                      = NumDiv(calls[c].usdcAmount, calls[c].exchangeRate)
               /\ pendingSwaps[calls[c].paymentRequestId].exchangeRate = calls[c].exchangeRate
               /\ pendingSwaps[calls[c].paymentRequestId].usdcAmount = calls[c].usdcAmount
        /\ calls[c].result.exchangeRate = calls[c].exchangeRate
        /\ calls[c].result.solAmount
               = ToFixed6(NumDiv(calls[c].usdcAmount, calls[c].exchangeRate))

C9_Witness ==
    \E c \in Created :
        /\ calls[c].paymentRequestId \in DOMAIN pendingSwaps
        /\ calls[c].result.solAmount # NumDiv(calls[c].usdcAmount, calls[c].exchangeRate)

\* C10: no step changes the usdcAmount, solAmount or exchangeRate of an entry
\* that stays in pendingSwaps.
C10_TermsWriteOnce ==
    [][\A id \in DOMAIN pendingSwaps :
          id \in DOMAIN pendingSwaps' => pendingSwaps'[id] = pendingSwaps[id]]_vars

C10_Witness ==
    \E x \in DOMAIN pendingSwaps, c \in Executes :
        /\ calls[c].result.kind = "success"
        /\ calls[c].paymentRequestId > x
        /\ calls[c].pendingSwap.exchangeRate # pendingSwaps[x].exchangeRate

\* The createSwapRequest calls that stored a request under id.
CreatorsOf(id) ==
    {c \in Creates : calls[c].paymentRequestId = id /\ calls[c].result.kind = "created"}

\* C11: a success receipt carries the source amount and the rate stored when
\* the request was created, the amount handed to the transfer is the source
\* amount divided by that rate, and the receipt shows it as the quote did; a
\* rate the oracle gave to a later request changes none of them.
C11_ReceiptEchoesCreation ==
    \A e \in Executes :
        calls[e].result.kind = "success" =>
            \E c \in CreatorsOf(calls[e].paymentRequestId) :
                /\ calls[e].result.usdcAmount = calls[c].usdcAmount
                /\ calls[e].result.exchangeRate = calls[c].exchangeRate
                /\ calls[e].solReceived = NumDiv(calls[c].usdcAmount, calls[c].exchangeRate)
                /\ calls[e].result.solAmount = calls[c].result.solAmount

C11_Witness ==
    \E e \in Executes :
        /\ calls[e].result.kind = "success"
        /\ NumLess(Num(0), calls[e].result.usdcAmount)
        /\ \E d \in Creates :
               /\ d < e
               /\ calls[d].paymentRequestId > calls[e].paymentRequestId
               /\ calls[d].pc \in {"payreq", "done"}
               /\ calls[d].exchangeRate # calls[e].result.exchangeRate

\* C12: a request id in completedSwaps stays there and is never in
\* pendingSwaps again, and an id enters completedSwaps only from pendingSwaps.
C12_StatusNeverRegresses ==
    [][\A id \in AllIds :
          /\ id \in completedSwaps => (id \in completedSwaps' /\ id \notin DOMAIN pendingSwaps')
          /\ (id \in completedSwaps' /\ id \notin completedSwaps) => id \in DOMAIN pendingSwaps]_vars

C12_Witness ==
    \E c \in Executes :
        /\ calls[c].replay
        /\ calls[c].verified
        /\ calls[c].pc = "done"
        /\ calls[c].proof.id \in completedSwaps

\* C13: a createSwapRequest stores its entry under an id that is in neither
\* registry and that no other request was given; the entries already stored
\* are kept.
C13_FreshId ==
    [][\A c \in Creates :
          (Acts(c) /\ pendingSwaps' # pendingSwaps) =>
              LET id == calls[c].paymentRequestId
              IN  /\ id \notin Stored
                  /\ \A d \in Creates \ {c} : calls[d].paymentRequestId # id
                  /\ DOMAIN pendingSwaps' = DOMAIN pendingSwaps \cup {id}
                  /\ \A i \in DOMAIN pendingSwaps : pendingSwaps'[i] = pendingSwaps[i]]_vars

C13_Witness ==
    /\ completedSwaps # {}
    /\ \E c \in Creates :
           /\ calls[c].result.kind = "created"
           /\ calls[c].paymentRequestId \in DOMAIN pendingSwaps
           /\ \E e \in Executes : e < c /\ calls[e].result.kind = "success"

\* C14: looking a stored request up by its id gives the amounts and the rate
\* it was created with, while it is pending and after it is completed.
C14_LookupStable ==
    \A id \in Ids :
        \A c \in CreatorsOf(id) :
            /\ id \in Stored
            /\ get(id) = PendingSwap(calls[c].usdcAmount, calls[c].solAmount, calls[c].exchangeRate)

\* C15: when the price feed throws or answers without parsed data,
\* getCurrentExchangeRate gives the fallback 150 to its caller instead of
\* raising, and the createSwapRequest goes on, quotes at 150 and, when it
\* succeeds, stores and returns 150 as the rate.
C15_OracleFallback ==
    [][\A c \in Creates :
          Acts(c) =>
              /\ calls[c].pc = "oracle" => calls'[c].pc = "payreq"
              /\ calls'[c].feedFailed =>
                     /\ calls'[c].exchangeRate = Num(FALLBACK_SOL_PRICE)
                     /\ calls'[c].solAmount = NumDiv(calls[c].usdcAmount, Num(FALLBACK_SOL_PRICE))
                     /\ calls'[c].result.kind = "created" =>
                            /\ calls'[c].result.exchangeRate = Num(FALLBACK_SOL_PRICE)
                            /\ pendingSwaps'[calls[c].paymentRequestId].exchangeRate
                                   = Num(FALLBACK_SOL_PRICE)]_vars

C15_Witness ==
    \E c \in Creates :
        /\ calls[c].feedFailed
        /\ calls[c].result.kind = "created"
        /\ NumLess(Num(0), calls[c].usdcAmount)
        /\ calls[c].paymentRequestId \in DOMAIN pendingSwaps

\* ------------------------------------------------- the oracle client alone
\* Answers of the feed beyond those of FeedResponses: a price below half a
\* cent, a zero price, a negative price and a price with a positive exponent.
OracleFeedResponses ==
    FeedResponses \cup {FeedPrice(4, -3), FeedPrice(0, 0), FeedPrice(-2004, -3), FeedPrice(15, 1)}

\* createSwapRequest calls only, the feed answering anything of the above.
OracleNext ==
    \/ \E usdcAmount \in UsdcAmounts : InvokeCreateSwapRequest(usdcAmount)
    \/ \E c \in DOMAIN calls : \E resp \in OracleFeedResponses : CreateRateFetched(c, resp)
    \/ \E c \in DOMAIN calls : \E outcome \in {"url", "nourl", "throw"} :
           CreatePaymentRequestDone(c, outcome)

OracleSpec == Init /\ [][OracleNext]_vars

\* C16: whatever the feed answers, and on every failure path, the rate
\* getCurrentExchangeRate returns is strictly positive and has at most two
\* decimal places.
C16_RatePositive ==
    \A c \in Creates :
        calls[c].pc # "oracle" =>
            /\ IsFinite(calls[c].exchangeRate)
            /\ NumLess(Num(0), calls[c].exchangeRate)
            /\ (100 * calls[c].exchangeRate.num) % calls[c].exchangeRate.den = 0

\* The executeSwap calls that present a verifiable receipt bound to id.
ExecutorsOf(id) ==
    {e \in Executes : calls[e].proof.valid /\ calls[e].proof.id = id}

ReceiptFor(c) ==
    [NoResult EXCEPT !.kind = "success",
                     !.usdcAmount = calls[c].usdcAmount,
                     !.solAmount = calls[c].result.solAmount,
                     !.exchangeRate = calls[c].exchangeRate]

ledger == <<pendingSwaps, completedSwaps, calls, uuids, paymentRequests, dexRuns, sendRuns>>

\* stopWhen: stepCountIs(4) of runSwapService, stepCountIs(8) of runSwapUser.
ServiceStepLimit == 4
UserStepLimit == 8

\* A stop condition that holds one step late.
stepCountIsPast(stepCount, steps) == steps = stepCount + 1

\* stepCountIs(stepCount): holds when the loop has completed stepCount steps.
stepCountIs(stepCount, steps) == steps = stepCount

\* The run after a step whose tools have returned.
AfterToolStep(run, stepCount) ==
    [run EXCEPT !.steps = @ + 1,
                !.tool = "",
                !.pc = IF stepCountIs(stepCount, run.steps + 1) THEN "returned" ELSE "model"]

\* The run after a step in which the model called no tool: result.text.
AfterTextStep(run) == [run EXCEPT !.steps = @ + 1, !.pc = "returned"]

InFlight(run) == run.pc \in {"model", "tool"}

\* A /chat request reaches the user agent's server: runSwapUser(message).
InvokeRunSwapUser ==
    /\ ~InFlight(agent.user)
    /\ ~InFlight(agent.service)
    /\ agent' = [agent EXCEPT !.user = [pc |-> "model", steps |-> 0, tool |-> ""]]
    /\ UNCHANGED <<ledger, cli, setup, payments>>

\* The model answers the user agent: with text, with a call of one of the
\* two tools, or the call of the model fails.  callSwapService posts the
\* message to the service's /chat, which runs runSwapService(message).
UserModelReturned(answer) ==
    /\ agent.user.pc = "model"
    /\ \/ /\ answer = "text"
          /\ agent' = [agent EXCEPT !.user = AfterTextStep(@)]
       \/ /\ answer = "throw"
          /\ agent' = [agent EXCEPT !.user.pc = "failed"]
       \/ /\ answer = "executePayment"
          /\ agent' = [agent EXCEPT !.user.pc = "tool", !.user.tool = answer]
       \/ /\ answer = "callSwapService"
          /\ agent' = [agent EXCEPT !.user.pc = "tool", !.user.tool = answer,
                                    !.service = [pc |-> "model", steps |-> 0, tool |-> ""]]
    /\ UNCHANGED <<ledger, cli, setup, payments>>

\* The model answers the service agent: with text, with a call of
\* createSwapRequest or executeSwap, or the call of the model fails.
ServiceModelReturned(answer) ==
    /\ agent.service.pc = "model"
    /\ \/ /\ answer = "text"
          /\ agent' = [agent EXCEPT !.service = AfterTextStep(@)]
       \/ /\ answer = "throw"
          /\ agent' = [agent EXCEPT !.service.pc = "failed"]
       \/ /\ answer \in {"createSwapRequest", "executeSwap"}
          /\ agent' = [agent EXCEPT !.service.pc = "tool", !.service.tool = answer]
    /\ UNCHANGED <<ledger, cli, setup, payments>>

\* The tool of the service agent's step has returned.
ServiceToolReturned ==
    /\ agent.service.pc = "tool"
    /\ agent' = [agent EXCEPT !.service = AfterToolStep(@, ServiceStepLimit)]
    /\ UNCHANGED <<ledger, cli, setup, payments>>

\* The tool of the user agent's step has returned: executePayment, or
\* callSwapService once the service's /chat has answered or failed (the
\* failure is caught and returned as {error: true}).
UserToolReturned ==
    /\ agent.user.pc = "tool"
    /\ agent.user.tool = "callSwapService" => ~InFlight(agent.service)
    /\ agent' = [agent EXCEPT !.user = AfterToolStep(@, UserStepLimit)]
    /\ UNCHANGED <<ledger, cli, setup, payments>>

ChatNext ==
    \/ InvokeRunSwapUser
    \/ \E answer \in {"text", "throw", "executePayment", "callSwapService"} :
           UserModelReturned(answer)
    \/ \E answer \in {"text", "throw", "createSwapRequest", "executeSwap"} :
           ServiceModelReturned(answer)
    \/ ServiceToolReturned
    \/ UserToolReturned

\* Every call of the model and every tool call returns or fails.
ChatFairness ==
    /\ WF_vars(\E answer \in {"text", "throw", "executePayment", "callSwapService"} :
                   UserModelReturned(answer))
    /\ WF_vars(\E answer \in {"text", "throw", "createSwapRequest", "executeSwap"} :
                   ServiceModelReturned(answer))
    /\ WF_vars(ServiceToolReturned)
    /\ WF_vars(UserToolReturned)

ChatSpec == Init /\ [][ChatNext]_vars /\ ChatFairness

\* The steps a loop has started: the completed ones and the one in progress.
StepsStarted(run) == run.steps + (IF InFlight(run) THEN 1 ELSE 0)

\* C19: a runSwapService invocation never starts more than 4 model steps
\* and a runSwapUser invocation never more than 8, and, every model call and
\* tool call returning, every invocation that is running eventually returns
\* a result or fails.
C19_NegotiationTerminates ==
    /\ [](StepsStarted(agent.service) <= ServiceStepLimit)
    /\ [](StepsStarted(agent.user) <= UserStepLimit)
    /\ InFlight(agent.service) ~> ~InFlight(agent.service)
    /\ InFlight(agent.user) ~> ~InFlight(agent.user)

\* Both loops were stopped by their step limit.
C19_Witness ==
    /\ agent.user.pc = "returned"
    /\ agent.user.steps = UserStepLimit
    /\ agent.service.pc = "returned"
    /\ agent.service.steps = ServiceStepLimit

\* --------------------------------------------- failing downstream steps
\* executeSwapOnDex and sendSolToAgent as written always answer success: true.
\* Here the answer is the environment's: the handler of executeSwap is run
\* against an exchange and a transfer that may report success: false, with
\* a feed that has no data, a payment service that always returns a URL and
\* receipts that can always be fetched.
FailNext ==
    \/ \E usdcAmount \in UsdcAmounts : InvokeCreateSwapRequest(usdcAmount)
    \/ \E c \in DOMAIN calls : CreateRateFetched(c, FeedNoData)
    \/ \E c \in DOMAIN calls : CreatePaymentRequestDone(c, "url")
    \/ \E proof \in Proofs : InvokeExecuteSwap(proof)
    \/ \E c \in DOMAIN calls : ExecReceiptFetched(c, TRUE)
    \/ \E c \in DOMAIN calls : ExecReceiptVerified(c)
    \/ \E c \in DOMAIN calls, success \in BOOLEAN : DexReturned(c, success)
    \/ \E c \in DOMAIN calls, success \in BOOLEAN : SendReturned(c, success)

FailSpec == Init /\ [][FailNext]_vars

\* The executeSwap calls that ended with a failed exchange or transfer.
DownstreamFailed ==
    {e \in Executes : calls[e].result.kind = "error"
                      /\ calls[e].result.error \in {SwapFailedError, SendFailedError}}

LiveNext ==
    \/ InvokeCreateSwapRequest(Num(25))
    \/ \E c \in DOMAIN calls : CreateRateFetched(c, FeedNoData)
    \/ \E c \in DOMAIN calls : CreatePaymentRequestDone(c, "url")
    \/ \E proof \in {p \in Proofs : p.valid} : InvokeExecuteSwap(proof)
    \/ \E c \in DOMAIN calls, fetched \in BOOLEAN : ExecReceiptFetched(c, fetched)
    \/ \E c \in DOMAIN calls : ExecReceiptVerified(c)
    \/ \E c \in DOMAIN calls : ExecSwappedOnDex(c)
    \/ \E c \in DOMAIN calls : ExecSolSent(c)

\* A suspended executeSwap call is resumed.
Resume ==
    \/ \E c \in DOMAIN calls, fetched \in BOOLEAN : ExecReceiptFetched(c, fetched)
    \/ \E c \in DOMAIN calls : ExecReceiptVerified(c)
    \/ \E c \in DOMAIN calls : ExecSwappedOnDex(c)
    \/ \E c \in DOMAIN calls : ExecSolSent(c)

LiveSpec == Init /\ [][LiveNext]_vars /\ WF_vars(Resume)

\* Call e is an executeSwap presenting a verifiable receipt bound to a
\* request that is Pending.
ValidForPending(e) ==
    /\ e \in Executes
    /\ calls[e].proof.valid
    /\ calls[e].proof.id \in DOMAIN pendingSwaps

\* Call e has returned a receipt echoing the stored amount and rate of its
\* request, and the request is Completed.
Succeeded(e) ==
    /\ e \in Executes
    /\ calls[e].result.kind = "success"
    /\ calls[e].paymentRequestId \in completedSwaps
    /\ \E c \in CreatorsOf(calls[e].paymentRequestId) :
           /\ calls[e].result.usdcAmount = calls[c].usdcAmount
           /\ calls[e].result.exchangeRate = calls[c].exchangeRate

\* C21 as stated: under fair scheduling, every executeSwap call with a valid
\* proof bound to a Pending request eventually returns a success receipt
\* echoing the request's amount and rate, the request being Completed.
C21_ValidExecuteSucceeds ==
    \A e \in 1..MaxCalls : (Running(e) /\ ValidForPending(e)) ~> Succeeded(e)

\* No executeSwap call is suspended at an await.
Quiet == \A e \in Executes : calls[e].pc = "done"

\* C21 amended: under fair scheduling every executeSwap call eventually
\* returns, and an
\* executeSwap call that has returned after fetching and verifying its
\* receipt and finding its request Pending at the lookup has returned a
\* success receipt echoing the request's amount and rate, the request being
\* Completed; an executeSwap call with a valid proof bound to a stored
\* request that has returned has returned that receipt, or the fetch error,
\* or the request was Completed by another executeSwap call.
C21_LookedUpExecuteSucceeds ==
    /\ []<>Quiet
    /\ [](\A e \in Executes :
              (calls[e].pc = "done" /\ calls[e].proof.valid /\ calls[e].proof.id \in Ids) =>
                  /\ (calls[e].verified /\ calls[e].result.kind # "error") => Succeeded(e)
                  /\ \/ Succeeded(e)
                     \/ calls[e].result = Thrown("fetch")
                     \/ calls[e].proof.id \in completedSwaps)

\* One executeSwap returned the receipt of a positive request, and another
\* one with a valid proof for the same request was turned away.
C21_Witness ==
    \E e, d \in Executes :
        /\ Succeeded(e)
        /\ NumLess(Num(0), calls[e].result.usdcAmount)
        /\ calls[d].proof = calls[e].proof
        /\ calls[d].result = ErrorResult(InvalidTokenError)

\* ------------------------------------------------------------ swap-demo.ts
\* What the user types at a prompt.
ExitText == <<"e", "x", "i", "t">>
SlashExitText == <<"/", "e", "x", "i", "t">>
PaddedExitText == <<" ", "/", "E", "x", "i", "t", " ">>
SwapText == <<"s", "w", "a", "p", " ", "2", "5">>

Inputs == {ExitText, SlashExitText, PaddedExitText, SwapText}

\* The answers of POST http://localhost:7576/chat: the fetch rejects with an
\* Error or with something else, the status is not ok, the body is not
\* { text: string }, or the body carries a text.
HttpRejected(text) == [kind |-> "reject", text |-> text]
HttpRejectedNoError == [kind |-> "rejectOther", text |-> << >>]
HttpNotOk(statusText) == [kind |-> "status", text |-> statusText]
HttpInvalidBody(text) == [kind |-> "invalid", text |-> text]
HttpText(text) == [kind |-> "text", text |-> text]

ResponseTexts ==
    { << >>,
      <<"S", "w", "a", "p", " ", "d", "o", "n", "e">>,
      <<"E", "R", "R", "O", "R">>,
      <<"i", "t", " ", "F", "a", "i", "l", "e", "d">>,
      <<"R", "e", "j", "e", "c", "t", "e", "d">>,
      <<"S", "p", "e", "n", "d", "i", "n", "g", " ", "l", "i", "m", "i", "t">>,
      <<"m", "a", "x", " ", "s", "p", "e", "n", "d", " ", "e", "x", "c", "e", "e", "d", "e", "d">>,
      <<"m", "i", "n", " ", "b", "a", "l", "a", "n", "c", "e", " ", "c", "h", "e", "c", "k", " ", "f", "a", "i", "l", "e", "d">>,
      <<"E", "x", "c", "e", "e", "d", "e", "d">>,
      <<"n", "o", " ", "l", "i", "m", "i", "t", "s">> }

HttpResponses ==
    {HttpRejected(<<"f", "e", "t", "c", "h", " ", "f", "a", "i", "l", "e", "d">>), HttpRejectedNoError,
     HttpNotOk(<<"5", "0", "0", " ", "I", "n", "t", "e", "r", "n", "a", "l", " ", "S", "e", "r", "v", "e", "r", " ", "E", "r", "r", "o", "r">>),
     HttpInvalidBody(<<"R", "e", "q", "u", "i", "r", "e", "d">>)}
        \cup {HttpText(t) : t \in ResponseTexts}

FailurePhrases ==
    { <<"e", "r", "r", "o", "r">>,
      <<"f", "a", "i", "l", "e", "d">>,
      <<"r", "e", "j", "e", "c", "t", "e", "d">>,
      <<"s", "p", "e", "n", "d", " ", "l", "i", "m", "i", "t">>,
      <<"m", "a", "x", " ", "s", "p", "e", "n", "d", " ", "e", "x", "c", "e", "e", "d", "e", "d">>,
      <<"m", "i", "n", " ", "b", "a", "l", "a", "n", "c", "e", " ", "c", "h", "e", "c", "k", " ", "f", "a", "i", "l", "e", "d">>,
      <<"e", "x", "c", "e", "e", "d", "e", "d">>,
      <<"l", "i", "m", "i", "t">> }

\* The phrases looked for in the text as it is, without toLowerCase().
isErrorCaseSensitive(text) == \E phrase \in FailurePhrases : includes(text, phrase)

\* const isError = text.toLowerCase().includes("error") || ...
isError(text) == \E phrase \in FailurePhrases : includes(toLowerCase(text), phrase)

\* executeSwap(command): the { success, message } made of the answer.
executeSwap(http) ==
    IF http.kind = "reject" THEN [success |-> FALSE, message |-> http.text]
    ELSE IF http.kind = "rejectOther"
    THEN [success |-> FALSE, message |-> <<"U", "n", "k", "n", "o", "w", "n", " ", "e", "r", "r", "o", "r">>]
    ELSE IF http.kind = "status"
    THEN [success |-> FALSE,
          message |-> <<"F", "a", "i", "l", "e", "d", " ", "t", "o", " ", "c", "o", "m", "m", "u", "n", "i", "c", "a", "t", "e", " ", "w", "i", "t", "h", " ", "a", "g", "e", "n", "t", ":", " ">> \o http.text]
    ELSE IF http.kind = "invalid" THEN [success |-> FALSE, message |-> http.text]
    ELSE [success |-> ~isError(http.text), message |-> http.text]

\* The answers to GET http://localhost:7576/ within the 2 second timeout.
Probes == {"200", "404", "refused", "timeout"}

\* Only a 200 response is taken as available.
checkAgentsAvailableOk(probe) == probe = "200"

\* checkAgentsAvailable(): any response, whatever its status, is true.
checkAgentsAvailable(probe) == probe \notin {"refused", "timeout"}

\* npx tsx swap-demo.ts, with or without SKIP_TUTORIAL=true; main() calls
\* checkAgentsAvailable().
LaunchCli(skipTutorial) ==
    /\ cli.pc \in {"idle", "exited"}
    /\ cli' = [NoCli EXCEPT !.pc = "check",
                            !.mode = IF skipTutorial THEN "freeform" ELSE "tutorial"]
    /\ UNCHANGED <<ledger, agent, setup, payments>>

\* The availability check has returned: process.exit(1), or the mode starts.
CheckReturned(probe) ==
    /\ cli.pc = "check"
    /\ cli' = IF ~checkAgentsAvailable(probe)
              THEN [cli EXCEPT !.pc = "exited", !.exitCode = 1, !.probe = probe]
              ELSE IF cli.mode = "freeform"
              THEN [cli EXCEPT !.pc = "freeInput", !.probe = probe]
              ELSE [cli EXCEPT !.pc = "confirmStart", !.probe = probe]
    /\ UNCHANGED <<ledger, agent, setup, payments>>

\* The comparison without trim() and toLowerCase().
isExitExact(userInput) == userInput = SlashExitText

\* userInput.trim().toLowerCase() === "/exit"
isExit(userInput) == toLowerCase(trim(userInput)) = SlashExitText

\* The helper executeSwap is called: the POST is sent.
Post(next, command) ==
    [cli EXCEPT !.pc = next, !.userInput = command, !.command = command,
                !.sent = @ \cup {command}]

\* runFreeFormMode: the prompt is answered; "/exit" breaks the loop and main
\* returns, anything else is posted to the agent.
FreeInput(userInput) ==
    /\ cli.pc = "freeInput"
    /\ cli' = IF isExit(userInput)
              THEN [cli EXCEPT !.pc = "exited", !.exitCode = 0, !.userInput = userInput]
              ELSE Post("freePost", userInput)
    /\ UNCHANGED <<ledger, agent, setup, payments>>

\* runFreeFormMode: executeSwap has returned, the result is printed and the
\* prompt shown again.
FreePosted(http) ==
    /\ cli.pc = "freePost"
    /\ cli' = [cli EXCEPT !.pc = "freeInput", !.http = http, !.result = executeSwap(http)]
    /\ UNCHANGED <<ledger, agent, setup, payments>>

\* ---------------------------------------------------------- tutorial mode
\* The steps that ask for a swap command, and those that give instructions.
SwapSteps == {1, 3, 5, 6}
RuleSteps == {2, 4}

\* Step step of the tutorial is entered.
StartStep(run, step) ==
    [run EXCEPT !.step = step, !.started = @ \cup {step},
                !.pc = IF step \in RuleSteps THEN "rule" ELSE "input"]

\* waitForUserConfirmation("Press Enter to start the tutorial..."), then the
\* first call of step1_InitialSwap.
ConfirmStart ==
    /\ cli.pc = "confirmStart"
    /\ cli' = StartStep(cli, 1)
    /\ UNCHANGED <<ledger, agent, setup, payments>>

\* A step's "Enter command:" prompt is answered and executeSwap called.
StepInput(userInput) ==
    /\ cli.pc = "input"
    /\ cli' = Post("post", userInput)
    /\ UNCHANGED <<ledger, agent, setup, payments>>

\* The phrases step 3 and step 6 look for in the message of a failed swap.
BlockedPhrases(step) ==
    IF step = 3
    THEN { <<"s", "p", "e", "n", "d", " ", "l", "i", "m", "i", "t", " ", "p", "e", "r", " ", "t", "r", "a", "n", "s", "a", "c", "t", "i", "o", "n">>,
           <<"s", "p", "e", "n", "d", "i", "n", "g", " ", "l", "i", "m", "i", "t">>,
           <<"t", "r", "a", "n", "s", "a", "c", "t", "i", "o", "n", " ", "l", "i", "m", "i", "t">> }
    ELSE { <<"m", "a", "x", " ", "s", "p", "e", "n", "d", " ", "e", "x", "c", "e", "e", "d", "e", "d">>,
           <<"h", "o", "u", "r", "l", "y", " ", "l", "i", "m", "i", "t">>,
           <<"s", "p", "e", "n", "d", " ", "l", "i", "m", "i", "t">>,
           <<"r", "a", "t", "e", " ", "l", "i", "m", "i", "t">>,
           <<"e", "x", "c", "e", "e", "d", "e", "d">> }

\* What the step's function returns: steps 1 and 5 want the swap to succeed,
\* steps 3 and 6 want it blocked by the rule.
stepResult(step, result) ==
    IF step \in {1, 5}
    THEN result.success
    ELSE /\ ~result.success
         /\ \E phrase \in BlockedPhrases(step) : includes(toLowerCase(result.message), phrase)

\* The run after the last step: completeTutorial() and the closing menu.
Complete(run) == [run EXCEPT !.completed = TRUE, !.pc = "continue"]

\* executeSwap has returned to a step.  Step 6 is followed by the completion
\* whatever it returns; a step that returns true by the next step; the others
\* by the question what to do.
StepPosted(http) ==
    /\ cli.pc = "post"
    /\ LET result == executeSwap(http)
           success == stepResult(cli.step, result)
           run == [cli EXCEPT !.http = http, !.result = result,
                              !.returned = @ \cup {cli.step},
                              !.passed = IF success THEN @ \cup {cli.step} ELSE @]
       IN  cli' = IF cli.step = 6 THEN Complete(run)
                  ELSE IF success THEN StartStep(run, cli.step + 1)
                  ELSE [run EXCEPT !.pc = "action"]
    /\ UNCHANGED <<ledger, agent, setup, payments>>

\* The three choices offered after every step, step 1 included.
ActionsWithSkip(step) == {"retry", "skip", "exit"}

\* The choices offered after a step returned false.
Actions(step) == IF step = 1 THEN {"retry", "exit"} ELSE {"retry", "skip", "exit"}

\* The question after a failed step is answered: the step is called again,
\* the loop left with break, or process.exit(0).
StepAction(action) ==
    /\ cli.pc = "action"
    /\ action \in Actions(cli.step)
    /\ cli' = IF action = "exit" THEN [cli EXCEPT !.pc = "exited", !.exitCode = 0]
              ELSE IF action = "skip"
              THEN StartStep([cli EXCEPT !.skipped = @ \cup {cli.step}], cli.step + 1)
              ELSE StartStep(cli, cli.step)
    /\ UNCHANGED <<ledger, agent, setup, payments>>

\* step2_SetMaxTransactionSize / step4_SetHourlySpendLimit: the browser
\* question and the confirmation are answered.
RuleStepDone ==
    /\ cli.pc = "rule"
    /\ cli' = StartStep([cli EXCEPT !.returned = @ \cup {cli.step}], cli.step + 1)
    /\ UNCHANGED <<ledger, agent, setup, payments>>

\* "What would you like to do next?": free practice or the end of main.
ContinueChoice(choice) ==
    /\ cli.pc = "continue"
    /\ cli' = IF choice = "practice"
              THEN [cli EXCEPT !.pc = "practiceInput"]
              ELSE [cli EXCEPT !.pc = "exited", !.exitCode = 0]
    /\ UNCHANGED <<ledger, agent, setup, payments>>

\* Free practice: "/exit" breaks the loop, anything else is posted.
PracticeInput(userInput) ==
    /\ cli.pc = "practiceInput"
    /\ cli' = IF isExit(userInput)
              THEN [cli EXCEPT !.pc = "exited", !.exitCode = 0, !.userInput = userInput]
              ELSE Post("practicePost", userInput)
    /\ UNCHANGED <<ledger, agent, setup, payments>>

PracticePosted(http) ==
    /\ cli.pc = "practicePost"
    /\ cli' = [cli EXCEPT !.pc = "practiceInput", !.http = http, !.result = executeSwap(http)]
    /\ UNCHANGED <<ledger, agent, setup, payments>>

CliNext ==
    \/ \E skipTutorial \in BOOLEAN : LaunchCli(skipTutorial)
    \/ \E probe \in Probes : CheckReturned(probe)
    \/ \E userInput \in Inputs : FreeInput(userInput)
    \/ \E http \in HttpResponses : FreePosted(http)
    \/ ConfirmStart
    \/ \E userInput \in Inputs : StepInput(userInput)
    \/ \E http \in HttpResponses : StepPosted(http)
    \/ \E action \in {"retry", "skip", "exit"} : StepAction(action)
    \/ RuleStepDone
    \/ \E choice \in {"practice", "exit"} : ContinueChoice(choice)
    \/ \E userInput \in Inputs : PracticeInput(userInput)
    \/ \E http \in HttpResponses : PracticePosted(http)

CliSpec == Init /\ [][CliNext]_vars

VarStates ==
    {[line |-> "none", env |-> "v"], [line |-> "v", env |-> ""],
     [line |-> "", env |-> ""], NoVar}

\* ${!var} after "set -a; source .env": a line of .env overrides the
\* environment.
ValueOf(var) == IF var.line # "none" THEN var.line ELSE var.env

\* [ -z "${!var}" ] && ! grep -q "^${var}=" .env
IsMissing(var) == ValueOf(var) = "" /\ var.line = "none"

\* REQUIRED_VARS without those that are not missing, in order.
RECURSIVE MissingOf(_, _)
MissingOf(vs, names) ==
    IF names = << >> THEN << >>
    ELSE (IF IsMissing(vs[Head(names)]) THEN <<Head(names)>> ELSE << >>)
             \o MissingOf(vs, Tail(names))

\* The script is started: .env is loaded and the missing variables collected;
\* with none missing it goes on to the dependencies.
LaunchSetup(found) ==
    /\ setup.pc = "idle"
    /\ LET missing == MissingOf(found, REQUIRED_VARS)
       IN  setup' = [setup EXCEPT !.vars = found, !.MISSING_VARS = missing,
                                  !.pc = IF missing = << >> THEN "install" ELSE "prompt"]
    /\ UNCHANGED <<ledger, agent, cli, payments>>

\* read -p "> " value: a non-empty value is appended to .env; after the last
\* prompt .env is loaded again.
PromptAnswered(value) ==
    /\ setup.pc = "prompt"
    /\ LET var == setup.MISSING_VARS[setup.prompted + 1]
           last == setup.prompted + 1 = Len(setup.MISSING_VARS)
       IN  setup' = [setup EXCEPT !.prompted = @ + 1,
                                  !.vars[var].line = IF value # "" THEN value ELSE @,
                                  !.pc = IF last THEN "install" ELSE "prompt"]
    /\ UNCHANGED <<ledger, agent, cli, payments>>

\* The dependencies: up to date or installed, or npm is missing or fails and
\* the script exits with 1.
InstallDone(ok) ==
    /\ setup.pc = "install"
    /\ setup' = IF ok THEN [setup EXCEPT !.pc = "final"]
                ELSE [setup EXCEPT !.pc = "exited", !.exitCode = 1, !.exitedAt = setup.pc]
    /\ UNCHANGED <<ledger, agent, cli, payments>>

\* The script with no final check.
FinalCheckSkipped(run) == FALSE

\* FINAL_CHECK_FAILED: some required variable is empty after .env is loaded.
FinalCheckFailed(run) == \E v \in RequiredVars : ValueOf(run.vars[v]) = ""

\* The final check: exit 1, or npx tsx swap-agents-server.ts & and the menu.
FinalCheck ==
    /\ setup.pc = "final"
    /\ setup' = IF FinalCheckFailed(setup)
                THEN [setup EXCEPT !.pc = "exited", !.exitCode = 1, !.exitedAt = setup.pc]
                ELSE [setup EXCEPT !.pc = "menu", !.started = TRUE]
    /\ UNCHANGED <<ledger, agent, cli, payments>>

\* The menu: 1, 2 and 3 run the tutorial, the CLI demo or the web UI and come
\* back to the menu; 4 kills the agent servers and exits with 0.
MenuChoice(choice) ==
    /\ setup.pc = "menu"
    /\ setup' = IF choice = 4
                THEN [setup EXCEPT !.choice = choice, !.pc = "exited", !.exitCode = 0,
                                   !.exitedAt = setup.pc]
                ELSE [setup EXCEPT !.choice = choice]
    /\ UNCHANGED <<ledger, agent, cli, payments>>

SetupNext ==
    \/ \E found \in [RequiredVars -> VarStates] : LaunchSetup(found)
    \/ \E value \in {"", "v"} : PromptAnswered(value)
    \/ \E ok \in BOOLEAN : InstallDone(ok)
    \/ FinalCheck
    \/ \E choice \in 1..4 : MenuChoice(choice)

SetupSpec == Init /\ [][SetupNext]_vars

\* The required variables all have a value.
AllSet(run) ==
    \A v \in RequiredVars :
        \/ run.vars[v].line = "v"
        \/ run.vars[v].line = "none" /\ run.vars[v].env = "v"

\* C23: the agent servers are started only with all five required variables
\* non-empty after the prompts; the final check starts them when all are
\* non-empty and otherwise exits with status 1, no server started; and until
\* the final check has passed no server is started.
C23_CredentialsChecked ==
    [][/\ setup'.started => AllSet(setup')
       /\ setup'.started /\ ~setup.started => setup.pc = "final"
       /\ (setup.pc = "final" /\ setup' # setup) =>
              IF AllSet(setup)
              THEN setup'.started /\ setup'.pc = "menu"
              ELSE setup'.pc = "exited" /\ setup'.exitCode = 1 /\ ~setup'.started]_vars

\* A variable was prompted for and left empty, another one has an empty line
\* in .env and was not prompted for; the final check has exited with 1.
C23_Witness ==
    /\ setup.pc = "exited"
    /\ setup.exitedAt = "final"
    /\ setup.exitCode = 1
    /\ ~setup.started
    /\ setup.prompted = 1
    /\ \E v \in RequiredVars : setup.vars[v] = [line |-> "", env |-> ""]
    /\ \E v \in RequiredVars : setup.vars[v] = [line |-> "v", env |-> ""]

\* C24: in every reachable state, the suspension points of concurrent tool
\* calls included, no request id is both in pendingSwaps and in
\* completedSwaps, and every id a createSwapRequest has stored is in exactly
\* one of the two.
C24_ExactlyOneCollection ==
    /\ DOMAIN pendingSwaps \cap completedSwaps = {}
    /\ \A c \in Creates :
           calls[c].result.kind = "created" =>
               (calls[c].paymentRequestId \in DOMAIN pendingSwaps)
                   # (calls[c].paymentRequestId \in completedSwaps)
    /\ Stored \subseteq {calls[c].paymentRequestId : c \in Creates}

\* A request is Completed while a second executeSwap of it is suspended
\* after its lookup.
C24_Witness ==
    \E e \in Executes : \E c \in CreatorsOf(calls[e].paymentRequestId) :
        /\ calls[e].pc \in {"dex", "send"}
        /\ calls[e].paymentRequestId \in completedSwaps
        /\ calls[e].paymentRequestId \notin DOMAIN pendingSwaps

\* C25: a request id is in completedSwaps only if some executeSwap call bound
\* to it had its exchange step and then its transfer step answer success
\* before the mark; within one call the transfer is started only by the step
\* in which the exchange has answered success, and the mark is made only by
\* the step in which the transfer has answered success.
C25_MarkAfterBothSteps ==
    [][/\ \A id \in completedSwaps' :
              \E e \in Executes : /\ calls'[e].paymentRequestId = id
                                  /\ calls'[e].swapSuccess = "yes"
                                  /\ calls'[e].sendSuccess = "yes"
       /\ \A e \in Executes :
              Acts(e) =>
                  /\ sendRuns' # sendRuns =>
                         /\ calls[e].pc = "dex"
                         /\ calls[e].swapSuccess = "none"
                         /\ calls'[e].swapSuccess = "yes"
                  /\ calls'[e].sendSuccess # "none" => calls'[e].swapSuccess = "yes"
                  /\ (completedSwaps' # completedSwaps \/ pendingSwaps' # pendingSwaps) =>
                         /\ calls[e].pc = "send"
                         /\ calls[e].sendSuccess = "none"
                         /\ calls'[e].sendSuccess = "yes"
                         /\ completedSwaps' = completedSwaps \cup {calls[e].paymentRequestId}]_vars

\* A request was Completed by one executeSwap, the transfer of another
\* executeSwap of it having failed.
C25_Witness ==
    \E d, e \in Executes :
        /\ calls[e].paymentRequestId \in completedSwaps
        /\ calls[d].paymentRequestId = calls[e].paymentRequestId
        /\ calls[d].swapSuccess = "yes" /\ calls[d].sendSuccess = "no"
        /\ calls[e].swapSuccess = "yes" /\ calls[e].sendSuccess = "yes"

\* C26: createSwapRequest adds its entry to pendingSwaps only in the step in
\* which createPaymentRequest has answered with a URL, and then returns the
\* request; when createPaymentRequest throws or answers without a URL the
\* call ends with an error, and pendingSwaps and completedSwaps are as they
\* were; no other step of a createSwapRequest changes either collection.
C26_StoredAfterIssuance ==
    [][\A c \in Creates :
          Acts(c) =>
              /\ pendingSwaps' # pendingSwaps =>
                     /\ calls[c].pc = "payreq"
                     /\ calls'[c].result.kind = "created"
                     /\ calls[c].paymentRequestId \in paymentRequests
                     /\ DOMAIN pendingSwaps' = DOMAIN pendingSwaps \cup {calls[c].paymentRequestId}
              /\ calls'[c].result.kind = "created" =>
                     calls[c].paymentRequestId \in DOMAIN pendingSwaps' \ DOMAIN pendingSwaps
              /\ calls'[c].result.kind \in {"error", "throw"} =>
                     /\ pendingSwaps' = pendingSwaps
                     /\ calls'[c].result \in {ErrorResult(NoUrlError), Thrown("createPaymentRequest")}
              /\ completedSwaps' = completedSwaps]_vars

\* One createSwapRequest ended without a URL and stored nothing, a later
\* one stored its request.
C26_Witness ==
    \E a, c \in Creates :
        /\ a < c
        /\ calls[a].result = ErrorResult(NoUrlError)
        /\ calls[a].paymentRequestId \in paymentRequests
        /\ calls[c].result.kind = "created"
        /\ DOMAIN pendingSwaps = {calls[c].paymentRequestId}

\* The failure phrases of the demo tooling.
ClaimedPhrases ==
    { <<"e", "r", "r", "o", "r">>,
      <<"f", "a", "i", "l", "e", "d">>,
      <<"r", "e", "j", "e", "c", "t", "e", "d">>,
      <<"s", "p", "e", "n", "d", " ", "l", "i", "m", "i", "t">>,
      <<"m", "a", "x", " ", "s", "p", "e", "n", "d", " ", "e", "x", "c", "e", "e", "d", "e", "d">>,
      <<"m", "i", "n", " ", "b", "a", "l", "a", "n", "c", "e", " ", "c", "h", "e", "c", "k", " ", "f", "a", "i", "l", "e", "d">>,
      <<"e", "x", "c", "e", "e", "d", "e", "d">>,
      <<"l", "i", "m", "i", "t">> }

\* text contains phrase somewhere, letter case ignored.
Contains(text, phrase) ==
    \E i \in 1..Len(text) :
        /\ i + Len(phrase) - 1 <= Len(text)
        /\ toLowerCase(SubSeq(text, i, i + Len(phrase) - 1)) = phrase

\* C27: the CLI helper executeSwap always returns a { success, message }; its
\* success is false exactly when the fetch was rejected, the response was not
\* ok, the body could not be parsed, or the response text contains one of
\* the failure phrases in any letter case; in every other case success is
\* true and the message is the response text.
C27_SuccessIffNoFailurePhrase ==
    cli.http # NoHttp =>
        /\ cli.http \in HttpResponses
        /\ cli.result.success \in BOOLEAN
        /\ ~cli.result.success <=>
               \/ cli.http.kind # "text"
               \/ \E phrase \in ClaimedPhrases : Contains(cli.http.text, phrase)
        /\ cli.result.success => cli.result.message = cli.http.text

\* The agent's answer ERROR, in upper case, was taken as a failure in
\* free-form mode.
C27_Witness ==
    /\ cli.mode = "freeform"
    /\ cli.http = HttpText(<<"E", "R", "R", "O", "R">>)
    /\ ~cli.result.success
    /\ cli.result.message = cli.http.text

\* Step step is entered by this transition, for the first time or again.
Enters(step) == cli'.step = step /\ cli'.pc \in {"input", "rule"} /\ cli' # cli /\ cli.pc # "input"

\* The swap just answered was refused with one of the step's phrases.
BlockedBy(step) ==
    /\ ~cli'.result.success
    /\ \E phrase \in BlockedPhrases(step) : Contains(cli'.result.message, phrase)

\* C28: in tutorial mode the steps run in the order 1 to 6; step 2 starts
\* only when a step-1 swap has succeeded, step 1 being retried or the
\* tutorial exited but never skipped; step 4 starts only when step 3 has
\* passed or was skipped by choice, step 6 only when step 5 has passed or was
\* skipped by choice; the completion message is shown only once step 6 has
\* run.
C28_TutorialOrder ==
    [][/\ cli'.started = 1..cli'.step
       /\ cli'.step \in {0, cli.step, cli.step + 1}
       /\ 1 \notin cli'.skipped
       /\ Enters(1) => cli.pc \in {"confirmStart", "action"}
       /\ Enters(2) => cli.pc = "post" /\ cli.step = 1 /\ cli'.result.success
       /\ Enters(3) => \/ cli.pc = "rule" /\ cli.step = 2
                       \/ cli.pc = "action" /\ cli.step = 3
       /\ Enters(4) => \/ cli.pc = "post" /\ cli.step = 3 /\ BlockedBy(3)
                       \/ cli.pc = "action" /\ cli.step = 3 /\ 3 \in cli'.skipped
       /\ Enters(5) => \/ cli.pc = "rule" /\ cli.step = 4
                       \/ cli.pc = "action" /\ cli.step = 5
       /\ Enters(6) => \/ cli.pc = "post" /\ cli.step = 5 /\ cli'.result.success
                       \/ cli.pc = "action" /\ cli.step = 5 /\ 5 \in cli'.skipped
       /\ (cli'.completed /\ ~cli.completed) =>
              cli.pc = "post" /\ cli.step = 6 /\ cli'.returned = 1..6]_vars

\* The tutorial was completed with step 3 skipped, step 5 passed and the
\* swap of step 6 not blocked.
C28_Witness ==
    /\ cli.completed
    /\ cli.skipped = {3}
    /\ cli.passed = {1, 5}
    /\ cli.result.success

\* C29: in tutorial and in free-form mode the CLI checks that the agents
\* answer on port 7576 before it prompts for or posts anything; when the
\* check gets no response within its timeout the process exits with code 1
\* and nothing was or is posted to /chat; any HTTP response, whatever its
\* status, lets the mode start.
C29_CheckBeforeAnything ==
    [][/\ (cli.pc \in {"idle", "exited"} /\ cli' # cli) =>
              /\ cli'.pc = "check"
              /\ cli'.mode \in {"tutorial", "freeform"}
       /\ cli'.pc = "check" =>
              cli'.sent = {} /\ cli'.userInput = << >> /\ cli'.step = 0 /\ cli'.probe = "none"
       /\ (cli.pc = "check" /\ cli' # cli) =>
              IF cli'.probe \in {"refused", "timeout"}
              THEN cli'.pc = "exited" /\ cli'.exitCode = 1 /\ cli'.sent = {}
              ELSE /\ cli'.probe \in {"200", "404"}
                   /\ cli'.pc = IF cli.mode = "freeform" THEN "freeInput" ELSE "confirmStart"
                   /\ cli'.exitCode = -1
       /\ cli'.sent # {} => cli'.probe \in {"200", "404"}
       /\ cli'.probe \in {"refused", "timeout"} => cli'.pc = "exited"]_vars

\* The tutorial was launched, the check timed out and the process exited
\* with code 1, nothing posted.
C29_Witness ==
    /\ cli.mode = "tutorial"
    /\ cli.probe = "timeout"
    /\ cli.pc = "exited"
    /\ cli.exitCode = 1
    /\ cli.sent = {}

\* The server answered the check with 404 and a swap was posted in free-form
\* mode.
C29_AnyResponseWitness ==
    /\ cli.mode = "freeform"
    /\ cli.probe = "404"
    /\ cli.sent # {}

\* ------------------------------------------- runSwapUser: executePayment
\* What fetch, res.text() or swapUserAgent.executePayment may throw: an Error
\* with its message, with or without response.data, or a value that is not
\* an Error.
JsError(message, data) == [isError |-> TRUE, message |-> message, data |-> data]
NonError == [isError |-> FALSE, message |-> "", data |-> "none"]
NoThrow == [isError |-> FALSE, message |-> "", data |-> "nothing thrown"]

FetchThrows == {JsError("fetch failed", "none"), NonError}
PaymentThrows ==
    {JsError("Spend limit per transaction exceeded", "policy violation"),
     JsError("Insufficient balance", "none"), NonError}

\* result.url of the SDK's answer: a receipt URL, or none.
ReceiptUrls == {"https://receipts/1", ""}

\* An executePayment tool call as the model calls it: suspended at
\* await fetch(paymentRequestUrl).
NewPayment ==
    [pc |-> "fetch", sdkCalls |-> 0, threw |-> NoThrow, url |-> "none",
     outcome |-> "pending", result |-> [pending |-> TRUE]]

\* The model calls the executePayment tool.
InvokeExecutePayment ==
    /\ Len(payments) < MaxPayments
    /\ payments' = Append(payments, NewPayment)
    /\ UNCHANGED <<ledger, agent, cli, setup>>

\* The catch block: return { success: false, error, details }.
PaymentCaught(error) ==
    [success |-> FALSE,
     error |-> IF error.isError THEN error.message ELSE "Payment failed",
     details |-> IF error.data # "none" THEN error.data
                 ELSE IF error.isError THEN error.message ELSE "undefined"]

\* return { error: "Failed to execute payment, no receipt URL returned" }
NoReceiptUrl == [error |-> "Failed to execute payment, no receipt URL returned"]

\* return { success: true, receiptUrl, amount: 10000, usdcPaid: 100, message }
PaymentCompleted(receiptUrl) ==
    [success |-> TRUE, receiptUrl |-> receiptUrl, amount |-> 10000, usdcPaid |-> 100,
     message |-> "USDC payment completed successfully"]

\* The tool call p has returned result.
PaymentReturned(p, result) ==
    [payments[p] EXCEPT !.pc = "done", !.outcome = "returned", !.result = result]

\* fetch(paymentRequestUrl).then(res => res.text()) has thrown and the catch
\* block returned.
TokenFetchThrew(p, error) ==
    /\ p \in DOMAIN payments
    /\ payments[p].pc = "fetch"
    /\ payments' = [payments EXCEPT ![p] = [PaymentReturned(p, PaymentCaught(error))
                                               EXCEPT !.threw = error]]
    /\ UNCHANGED <<ledger, agent, cli, setup>>

\* The token was fetched: swapUserAgent.executePayment(paymentRequestToken)
\* is called and awaited.
TokenFetched(p) ==
    /\ p \in DOMAIN payments
    /\ payments[p].pc = "fetch"
    /\ payments' = [payments EXCEPT ![p].pc = "sdk", ![p].sdkCalls = @ + 1]
    /\ UNCHANGED <<ledger, agent, cli, setup>>

\* A tool that calls swapUserAgent.executePayment again when it has thrown.
PaymentThrewRetried(p, error) ==
    /\ p \in DOMAIN payments
    /\ payments[p].pc = "sdk"
    /\ payments' = IF payments[p].sdkCalls < 2
                   THEN [payments EXCEPT ![p].sdkCalls = @ + 1, ![p].threw = error]
                   ELSE [payments EXCEPT ![p] = [PaymentReturned(p, PaymentCaught(error))
                                                    EXCEPT !.threw = error]]
    /\ UNCHANGED <<ledger, agent, cli, setup>>

\* swapUserAgent.executePayment has thrown and the catch block returned.
PaymentThrew(p, error) ==
    /\ p \in DOMAIN payments
    /\ payments[p].pc = "sdk"
    /\ payments' = [payments EXCEPT ![p] = [PaymentReturned(p, PaymentCaught(error))
                                               EXCEPT !.threw = error]]
    /\ UNCHANGED <<ledger, agent, cli, setup>>

\* A tool that reports success whatever result.url is.
PaymentExecutedUrlUnchecked(p, receiptUrl) ==
    /\ p \in DOMAIN payments
    /\ payments[p].pc = "sdk"
    /\ payments' = [payments EXCEPT ![p] = [PaymentReturned(p, PaymentCompleted(receiptUrl))
                                               EXCEPT !.url = receiptUrl]]
    /\ UNCHANGED <<ledger, agent, cli, setup>>

\* swapUserAgent.executePayment has returned: if (!receiptUrl) the error
\* result, otherwise the success result.
PaymentExecuted(p, receiptUrl) ==
    /\ p \in DOMAIN payments
    /\ payments[p].pc = "sdk"
    /\ payments' = [payments EXCEPT ![p] =
                        [PaymentReturned(p, IF receiptUrl = "" THEN NoReceiptUrl
                                            ELSE PaymentCompleted(receiptUrl))
                            EXCEPT !.url = receiptUrl]]
    /\ UNCHANGED <<ledger, agent, cli, setup>>

PayNext ==
    \/ InvokeExecutePayment
    \/ \E p \in 1..MaxPayments, error \in FetchThrows : TokenFetchThrew(p, error)
    \/ \E p \in 1..MaxPayments : TokenFetched(p)
    \/ \E p \in 1..MaxPayments, error \in PaymentThrows : PaymentThrew(p, error)
    \/ \E p \in 1..MaxPayments, receiptUrl \in ReceiptUrls : PaymentExecuted(p, receiptUrl)

PaySpec == Init /\ [][PayNext]_vars

\* The tool call has returned a result that says success: true.
ReportsSuccess(payment) ==
    /\ payment.outcome = "returned"
    /\ "success" \in DOMAIN payment.result
    /\ payment.result.success = TRUE

\* C30: every executePayment tool call invokes the payment SDK at most once;
\* when fetching the token or executing the payment has thrown, the call has
\* returned, not thrown, a result with success false and the error's
\* message; and a call reports success true only when the SDK returned a
\* receipt URL.
C30_OneAttemptNoThrow ==
    \A p \in DOMAIN payments :
        /\ payments[p].sdkCalls <= 1
        /\ payments[p].outcome # "thrown"
        /\ payments[p].threw # NoThrow =>
               /\ payments[p].pc = "done"
               /\ payments[p].outcome = "returned"
               /\ payments[p].result.success = FALSE
               /\ payments[p].threw.isError => payments[p].result.error = payments[p].threw.message
               /\ payments[p].url = "none"
        /\ ReportsSuccess(payments[p]) =>
               /\ payments[p].url \notin {"none", ""}
               /\ payments[p].result.receiptUrl = payments[p].url
               /\ payments[p].sdkCalls = 1
        /\ (payments[p].pc = "done" /\ payments[p].url = "") => ~ReportsSuccess(payments[p])

\* One tool call was refused by the spend limit after its single SDK call and
\* returned success false with that message, another one never reached the
\* SDK, a third returned success true with its receipt URL.
C30_Witness ==
    \E p, q, r \in DOMAIN payments :
        /\ payments[p].threw = JsError("Spend limit per transaction exceeded", "policy violation")
        /\ payments[p].sdkCalls = 1
        /\ payments[p].result.success = FALSE
        /\ payments[p].result.error = "Spend limit per transaction exceeded"
        /\ payments[q].threw = JsError("fetch failed", "none")
        /\ payments[q].sdkCalls = 0
        /\ payments[q].result.success = FALSE
        /\ ReportsSuccess(payments[r])

====
